---------------------------- MODULE Spec2Model ----------------------------
(***************************************************************************)
(* A model of the two scripts of the repository:                           *)
(*                                                                         *)
(*   fix_images.py                  the Path Rewriter                      *)
(*   src/bedrock/ask_quuestion.py   the Inference Caller                   *)
(*                                                                         *)
(* Text is a sequence of Unicode code points and a file is a sequence of   *)
(* bytes; the text layer of open() (UTF-8, universal newlines) converts    *)
(* between the two.                                                        *)
(***************************************************************************)
EXTENDS Integers, Sequences, FiniteSets

(***************************************************************************)
(* Bounds of the model.                                                    *)
(***************************************************************************)
\* the target file is a concatenation of at most MaxChunks fragments
MaxChunks == 2
\* the Path Rewriter is run at most MaxRuns times in a row on the same file
MaxRuns == 2
\* requests the client library sends for one converse call (first + retries)
MaxAttempts == 3

(***************************************************************************)
(* Code points used below.                                                 *)
(***************************************************************************)
LF == <<10>>
CR == <<13>>
CRLF == <<13, 10>>

(***************************************************************************)
(* fix_images.py: the replacements table.  The six old-strings share the   *)
(* text "/closet/Capture d'écran 2025-11-07 à " and the extension     *)
(* ".png", and differ in the time of day.                                  *)
(***************************************************************************)
\* "/closet/Capture d'écran 2025-11-07 à "
CapturePrefix ==
  <<47, 99, 108, 111, 115, 101, 116, 47, 67, 97, 112, 116, 117, 114, 101, 32,
    100, 39, 233, 99, 114, 97, 110, 32, 50, 48, 50, 53, 45, 49, 49, 45, 48, 55,
    32, 224, 32>>
\* ".png"
DotPng == <<46, 112, 110, 103>>
\* "/closet/"
ClosetDir == <<47, 99, 108, 111, 115, 101, 116, 47>>

Capture(time) == CapturePrefix \o time \o DotPng
Numbered(n) == ClosetDir \o n \o DotPng

\* a variant of the table in which the new-string of the first pair is the
\* old-string of the second
replacementsChained ==
  << << Capture(<<48, 56, 46, 51, 51, 46, 48, 56>>),
        Capture(<<49, 49, 46, 52, 55, 46, 53, 57>>) >>,
     << Capture(<<49, 49, 46, 52, 55, 46, 53, 57>>), Numbered(<<48, 48, 50>>) >>,
     << Capture(<<49, 49, 46, 50, 49, 46, 53, 49>>), Numbered(<<48, 48, 51>>) >>,
     << Capture(<<49, 49, 46, 50, 49, 46, 53, 57>>), Numbered(<<48, 48, 52>>) >>,
     << Capture(<<49, 49, 46, 51, 50, 46, 52, 48>>), Numbered(<<48, 48, 53>>) >>,
     << Capture(<<49, 49, 46, 51, 51, 46, 49, 56>>), Numbered(<<48, 48, 54>>) >> >>

replacements ==
  << << Capture(<<48, 56, 46, 51, 51, 46, 48, 56>>), Numbered(<<48, 48, 49>>) >>,
     << Capture(<<49, 49, 46, 52, 55, 46, 53, 57>>), Numbered(<<48, 48, 50>>) >>,
     << Capture(<<49, 49, 46, 50, 49, 46, 53, 49>>), Numbered(<<48, 48, 51>>) >>,
     << Capture(<<49, 49, 46, 50, 49, 46, 53, 57>>), Numbered(<<48, 48, 52>>) >>,
     << Capture(<<49, 49, 46, 51, 50, 46, 52, 48>>), Numbered(<<48, 48, 53>>) >>,
     << Capture(<<49, 49, 46, 51, 51, 46, 49, 56>>), Numbered(<<48, 48, 54>>) >> >>

Pairs == 1..Len(replacements)
Old(k) == replacements[k][1]
New(k) == replacements[k][2]

(***************************************************************************)
(* str: `old in content` and content.replace(old, new).                    *)
(***************************************************************************)
MatchAt(s, old, p) ==
  /\ p + Len(old) - 1 <= Len(s)
  /\ \A j \in 1..Len(old) : s[p + j - 1] = old[j]

\* old in s   (old is never empty here)
Contains(s, old) == \E p \in 1..Len(s) : MatchAt(s, old, p)

\* the leftmost occurrence of old in s at or after p; 0 when there is none
Find(s, old, p) ==
  IF \E q \in p..Len(s) : MatchAt(s, old, q)
  THEN CHOOSE q \in p..Len(s) :
         MatchAt(s, old, q) /\ \A r \in p..(q - 1) : ~MatchAt(s, old, r)
  ELSE 0

RECURSIVE ReplaceFrom(_, _, _, _)
ReplaceFrom(s, old, new, p) ==
  LET q == Find(s, old, p)
  IN  IF q = 0 THEN SubSeq(s, p, Len(s))
      ELSE SubSeq(s, p, q - 1) \o new \o ReplaceFrom(s, old, new, q + Len(old))

\* s.replace(old, new): every non-overlapping occurrence, left to right
Replace(s, old, new) == ReplaceFrom(s, old, new, 1)

\* s.replace(old, new, 1): the leftmost occurrence only
ReplaceFirst(s, old, new) ==
  LET q == Find(s, old, 1)
  IN  IF q = 0 THEN s
      ELSE SubSeq(s, 1, q - 1) \o new \o SubSeq(s, q + Len(old), Len(s))

\* s.count(old)
RECURSIVE CountFrom(_, _, _)
CountFrom(s, old, p) ==
  LET q == Find(s, old, p)
  IN  IF q = 0 THEN 0 ELSE 1 + CountFrom(s, old, q + Len(old))
Occurrences(s, old) == CountFrom(s, old, 1)

(***************************************************************************)
(* The body of the replacement loop for one (old, new) pair.               *)
(***************************************************************************)
LoopContentFirstOnly(c, old, new) ==
  IF Contains(c, old) THEN ReplaceFirst(c, old, new) ELSE c

LoopContent(c, old, new) ==
  IF Contains(c, old) THEN Replace(c, old, new) ELSE c

LoopCountOccurrences(c, n, old) == n + Occurrences(c, old)

LoopCount(c, n, old) ==
  IF Contains(c, old) THEN n + 1 ELSE n


(***************************************************************************)
(* The text layer of open(..., encoding='utf-8'): strict UTF-8 and, since  *)
(* no newline argument is given, universal newlines.                       *)
(***************************************************************************)
IsContinuation(b) == b \in 128..191

\* the length of the UTF-8 sequence a lead byte starts; 0 for a byte that
\* starts none
SequenceLength(b0) ==
  IF b0 < 128 THEN 1
  ELSE IF b0 \in 194..223 THEN 2
  ELSE IF b0 \in 224..239 THEN 3
  ELSE IF b0 \in 240..244 THEN 4
  ELSE 0

\* the strict decoder rejects truncated sequences, stray continuation bytes,
\* overlong forms, surrogates and code points above U+10FFFF
WellFormedAt(b, p) ==
  LET n == SequenceLength(b[p])
  IN  /\ n > 0
      /\ p + n - 1 <= Len(b)
      /\ \A j \in 1..(n - 1) : IsContinuation(b[p + j])
      /\ (b[p] = 224 => b[p + 1] >= 160)
      /\ (b[p] = 237 => b[p + 1] <= 159)
      /\ (b[p] = 240 => b[p + 1] >= 144)
      /\ (b[p] = 244 => b[p + 1] <= 143)

CodePointAt(b, p) ==
  LET n == SequenceLength(b[p])
  IN  IF n = 1 THEN b[p]
      ELSE IF n = 2 THEN (b[p] - 192) * 64 + (b[p + 1] - 128)
      ELSE IF n = 3 THEN (b[p] - 224) * 4096 + (b[p + 1] - 128) * 64
                         + (b[p + 2] - 128)
      ELSE (b[p] - 240) * 262144 + (b[p + 1] - 128) * 4096
           + (b[p + 2] - 128) * 64 + (b[p + 3] - 128)

\* the concatenation of a sequence of sequences
RECURSIVE Flatten(_)
Flatten(ss) ==
  IF Len(ss) = 0 THEN <<>>
  ELSE IF Len(ss) = 1 THEN ss[1]
  ELSE LET h == Len(ss) \div 2
       IN  Flatten(SubSeq(ss, 1, h)) \o Flatten(SubSeq(ss, h + 1, Len(ss)))

\* whether bytes.decode('utf-8') succeeds: the decoder goes from one sequence
\* to the next, so the first byte starts a sequence, every byte that is no
\* continuation byte starts a well-formed one, and a sequence is followed by
\* the end of the data or by the start of the next
ValidUtf8(b) ==
  /\ (Len(b) > 0 => ~IsContinuation(b[1]))
  /\ \A p \in 1..Len(b) :
       ~IsContinuation(b[p]) =>
         /\ WellFormedAt(b, p)
         /\ LET q == p + SequenceLength(b[p])
            IN  q <= Len(b) => ~IsContinuation(b[q])

\* bytes.decode('utf-8') of a valid byte sequence: one code point for each
\* byte that starts a sequence
Decode(b) ==
  Flatten([p \in 1..Len(b) |->
             IF IsContinuation(b[p]) THEN <<>> ELSE <<CodePointAt(b, p)>>])

EncodeCodePoint(c) ==
  IF c < 128 THEN <<c>>
  ELSE IF c < 2048 THEN <<192 + (c \div 64), 128 + (c % 64)>>
  ELSE IF c < 65536
       THEN <<224 + (c \div 4096), 128 + ((c \div 64) % 64), 128 + (c % 64)>>
  ELSE <<240 + (c \div 262144), 128 + ((c \div 4096) % 64),
         128 + ((c \div 64) % 64), 128 + (c % 64)>>

\* str.encode('utf-8')
Encode(s) == Flatten([p \in 1..Len(s) |-> EncodeCodePoint(s[p])])

\* reading with newline=None: "\r\n" and a lone "\r" both arrive as "\n"
ReadNewlines(s) == Replace(Replace(s, CRLF, LF), CR, LF)

\* writing with newline=None: every "\n" leaves as os.linesep
WriteNewlines(s, sep) == IF sep = LF THEN s ELSE Replace(s, LF, sep)

\* f.read() on the file opened at line 4
ReadText(b) == ReadNewlines(Decode(b))

\* the bytes f.write(content) and the close of the file put on disk
WrittenBytes(s, sep) == Encode(WriteNewlines(s, sep))

Prefixes(b) == { SubSeq(b, 1, n) : n \in 0..Len(b) }


(***************************************************************************)
(* fix_images.py as a state machine.                                       *)
(*                                                                         *)
(* The file system holds the one path the script names: whether it exists, *)
(* whether this process may read and write it, and its bytes.  linesep is  *)
(* os.linesep of the platform the script runs on.                          *)
(***************************************************************************)
VARIABLES
  exists, readable, writable, file, linesep,   \* the target path, the platform
  pc,        \* the statement the script is at
  content,   \* the variable content
  count,     \* the variable count
  todo,      \* the pairs of replacements the for loop has not visited yet
  stdout,    \* what the run has printed
  err,       \* the exception that ended the run and the statement that raised it
  completed, \* the file operations of this run that have completed
  run,       \* 1 for the first run on the file, 2 for the next, ...
  reported,  \* the counts the earlier runs on the file reported
  orig,      \* the bytes of the file when the run started
  input      \* what f.read() returned in this run

rwVars == <<exists, readable, writable, file, linesep, pc, content, count,
            todo, stdout, err, completed, run, reported, orig, input>>

\* the state of src/bedrock/ask_quuestion.py, described with its actions below
VARIABLES
  cpc,       \* the statement the script is at
  calls,     \* the converse calls the script has made
  sent,      \* the requests the client has put on the wire, in order
  failed,    \* the attempts that ended in a failure the client retries
  replies,   \* the answers (responses and errors) the service has given
  response,  \* the variable response
  rendered,  \* what display has rendered, in order
  cerr       \* the exception that ended the run and the statement that raised it

callerVars == <<cpc, calls, sent, failed, replies, response, rendered, cerr>>

vars == <<rwVars, callerVars>>

\* the fragments target files are built from, as bytes
Fragments ==
  { Encode(Old(k)) : k \in { 1, 3, 4 } }   \* 3 and 4 differ in one digit
    \cup { Encode(CapturePrefix),     \* the start of an old-string, cut short
           <<120>>,                   \* "x"
           LF, CR, CRLF,              \* the three line endings
           <<226, 128, 175>>,         \* U+202F, three bytes
           <<255>> }                  \* never valid in UTF-8

RECURSIVE Files(_)
Files(n) ==
  IF n = 0 THEN { <<>> }
  ELSE Files(n - 1) \cup { a \o b : a \in Files(n - 1), b \in Fragments }

NoError == [type |-> "", at |-> ""]

\* the value of response before line 31 has assigned it
Unset == [unset |-> TRUE]

\* the Inference Caller before its first statement
CallerStart ==
  /\ cpc = "client"
  /\ calls = 0
  /\ sent = <<>>
  /\ failed = 0
  /\ replies = 0
  /\ response = Unset
  /\ rendered = <<>>
  /\ cerr = NoError

\* the Path Rewriter before its first statement
ScriptStart ==
  /\ pc = "open_r"
  /\ content = <<>>
  /\ count = 0
  /\ todo = Pairs
  /\ stdout = <<>>
  /\ err = NoError
  /\ completed = {}
  /\ run = 1
  /\ reported = <<>>
  /\ orig = file
  /\ input = <<>>

RewriterInit ==
  /\ exists \in BOOLEAN
  /\ readable \in BOOLEAN
  /\ writable \in BOOLEAN
  /\ (~exists => readable /\ writable)
  /\ (~readable => writable)
  /\ file \in (IF exists /\ readable THEN Files(MaxChunks) ELSE { <<>> })
  /\ linesep \in { LF, CRLF }
  /\ ScriptStart
  /\ CallerStart

Raise(e) ==
  /\ err' = [type |-> e, at |-> pc]
  /\ pc' = "error"

\* line 4: open(path, 'r', encoding='utf-8')
OpenRead ==
  /\ pc = "open_r"
  /\ IF ~exists THEN Raise("FileNotFoundError")
     ELSE IF ~readable THEN Raise("PermissionError")
     ELSE pc' = "read" /\ err' = err
  /\ UNCHANGED <<exists, readable, writable, file, linesep, content, count,
                 todo, stdout, completed, run, reported, orig, input>>
  /\ UNCHANGED callerVars

\* a read that swallows the decoding error and goes on with no text
ReadOrEmpty ==
  /\ pc = "read"
  /\ content' = IF ValidUtf8(file) THEN ReadText(file) ELSE <<>>
  /\ input' = content'
  /\ count' = 0
  /\ completed' = completed \cup { "read" }
  /\ pc' = "loop"
  /\ UNCHANGED <<exists, readable, writable, file, linesep, todo, stdout, err,
                 run, reported, orig>>
  /\ UNCHANGED callerVars

\* line 5: content = f.read(), and line 17: count = 0
Read ==
  /\ pc = "read"
  /\ IF ValidUtf8(file)
     THEN /\ content' = ReadText(file)
          /\ input' = ReadText(file)
          /\ count' = 0
          /\ completed' = completed \cup { "read" }
          /\ pc' = "loop"
          /\ err' = err
     ELSE /\ Raise("UnicodeDecodeError")
          /\ UNCHANGED <<content, input, count, completed>>
  /\ UNCHANGED <<exists, readable, writable, file, linesep, todo, stdout, run,
                 reported, orig>>
  /\ UNCHANGED callerVars

\* line 5, when the device fails under the read
ReadFail ==
  /\ pc = "read"
  /\ Raise("OSError")
  /\ UNCHANGED <<exists, readable, writable, file, linesep, content, count,
                 todo, stdout, completed, run, reported, orig, input>>
  /\ UNCHANGED callerVars

\* lines 19-21: the body of the for loop for pair k
LoopBody(k) ==
  /\ content' = LoopContent(content, Old(k), New(k))
  /\ count' = LoopCount(content, count, Old(k))
  /\ todo' = todo \ { k }
  /\ UNCHANGED <<exists, readable, writable, file, linesep, pc, stdout, err,
                 completed, run, reported, orig, input>>
  /\ UNCHANGED callerVars

\* the pair a for loop over the table visits next
NextInTable(S) == CHOOSE k \in S : \A j \in S : k <= j

\* lines 18-21: one iteration of the for loop, in the order of the table
LoopStep ==
  /\ pc = "loop"
  /\ todo # {}
  /\ LoopBody(NextInTable(todo))

\* an open(path, 'w') that empties the file even when it fails
OpenForWriteFailsTruncated(w) == TRUE

\* whether open(path, 'w') empties the file: only an open that succeeds does
OpenForWriteTruncates(w) == w

\* line 23: open(path, 'w', encoding='utf-8'), after the loop has ended
OpenWrite ==
  /\ pc = "loop"
  /\ todo = {}
  /\ file' = IF OpenForWriteTruncates(writable) THEN <<>> ELSE file
  /\ IF writable THEN pc' = "write" /\ err' = err
     ELSE err' = [type |-> "PermissionError", at |-> "open_w"] /\ pc' = "error"
  /\ UNCHANGED <<exists, readable, writable, linesep, content, count, todo,
                 stdout, completed, run, reported, orig, input>>
  /\ UNCHANGED callerVars

\* line 24 and the close of the with block: all the bytes reach the file
Write ==
  /\ pc = "write"
  /\ file' = WrittenBytes(content, linesep)
  /\ completed' = completed \cup { "write" }
  /\ pc' = "print"
  /\ UNCHANGED <<exists, readable, writable, linesep, content, count, todo,
                 stdout, err, run, reported, orig, input>>
  /\ UNCHANGED callerVars

\* line 24 and the close, when the device fails (disk full, I/O error):
\* some prefix of the bytes has reached the emptied file
WriteFail ==
  /\ pc = "write"
  /\ file' \in Prefixes(WrittenBytes(content, linesep))
  /\ Raise("OSError")
  /\ UNCHANGED <<exists, readable, writable, linesep, content, count, todo,
                 stdout, completed, run, reported, orig, input>>
  /\ UNCHANGED callerVars

\* f"Successfully replaced {count} image paths"
Message(n) == <<"Successfully replaced ", n, " image paths">>

\* line 26: print(f"Successfully replaced {count} image paths")
PrintCount ==
  /\ pc = "print"
  /\ stdout' = Append(stdout, Message(count))
  /\ pc' = "done"
  /\ UNCHANGED <<exists, readable, writable, file, linesep, content, count,
                 todo, err, completed, run, reported, orig, input>>
  /\ UNCHANGED callerVars

\* the script is started again on the file the run before left
Rerun ==
  /\ pc = "done"
  /\ run < MaxRuns
  /\ run' = run + 1
  /\ reported' = Append(reported, count)
  /\ pc' = "open_r"
  /\ content' = <<>>
  /\ count' = 0
  /\ todo' = Pairs
  /\ stdout' = <<>>
  /\ completed' = {}
  /\ orig' = file
  /\ input' = <<>>
  /\ UNCHANGED <<exists, readable, writable, file, linesep, err>>
  /\ UNCHANGED callerVars

RewriterNext ==
  \/ OpenRead
  \/ Read
  \/ ReadFail
  \/ LoopStep
  \/ OpenWrite
  \/ Write
  \/ WriteFail
  \/ PrintCount
  \/ Rerun


(***************************************************************************)
(* The same script with the for loop free to visit the pairs of the table  *)
(* in any order, on files that can be read and written.                    *)
(***************************************************************************)
OrderFragments ==
  { Encode(Old(k)) : k \in Pairs }
    \cup { Encode(New(1)), Encode(CapturePrefix), <<120>> }

RECURSIVE OrderFiles(_)
OrderFiles(n) ==
  IF n = 0 THEN { <<>> }
  ELSE OrderFiles(n - 1)
         \cup { a \o b : a \in OrderFiles(n - 1), b \in OrderFragments }

OrderInit ==
  /\ exists = TRUE
  /\ readable = TRUE
  /\ writable = TRUE
  /\ file \in OrderFiles(MaxChunks)
  /\ linesep = LF
  /\ ScriptStart
  /\ CallerStart

LoopStepAnyOrder ==
  /\ pc = "loop"
  /\ \E k \in todo : LoopBody(k)

OrderNext ==
  \/ OpenRead
  \/ Read
  \/ LoopStepAnyOrder
  \/ OpenWrite
  \/ Write
  \/ PrintCount



(***************************************************************************)
(* src/bedrock/ask_quuestion.py as a state machine.                        *)
(*                                                                         *)
(* bedrock is a client built with the library's default configuration:     *)
(* converse() sends the request, waits for the service within the client's *)
(* default connect and read timeouts, and sends it again after a failure   *)
(* the default retry policy retries, until it has a response, meets a      *)
(* failure it does not retry, or has used up its attempts.                 *)
(***************************************************************************)
\* line 9
modelId == "us.amazon.nova-lite-v1:0"
\* lines 12-14
system_prompt ==
  "\nYou are a helpful expert in artificial intelligence and machine learning.\n"
\* lines 15-17
user_prompt ==
  "\nExplain convolutional neural networks to a high school student.\n"

\* a configuration with other sampling parameters
inference_configCooler == [temperature |-> 0, topP |-> 1, maxTokens |-> 2000]

\* lines 20-24; 1 stands for the float 1.0
inference_config == [temperature |-> 1, topP |-> 1, maxTokens |-> 2000]

\* line 27
messages == << [role |-> "user", content |-> << [text |-> user_prompt] >>] >>
\* line 28
system == << [text |-> system_prompt] >>

\* the keyword arguments of lines 32-35
Request ==
  [modelId |-> modelId, messages |-> messages, system |-> system,
   inferenceConfig |-> inference_config]

\* what the service may put in output.message.content
Segments == { [text |-> "X"], [text |-> "Y"], [toolUse |-> "t"] }
Contents ==
  { <<>> } \cup { <<a>> : a \in Segments }
    \cup { <<a, b>> : a \in Segments, b \in Segments }

\* the responses converse may return: the documented shape, and shapes the
\* script does not expect
Responses ==
  { [output |-> [message |-> [role |-> "assistant", content |-> c]],
     stopReason |-> "end_turn"] : c \in Contents }
    \cup { [output |-> [message |-> [role |-> "assistant"]],
            stopReason |-> "end_turn"],
           [stopReason |-> "end_turn"] }

\* line 6: boto3.client(service_name="bedrock-runtime")
CreateClient ==
  /\ cpc = "client"
  /\ cpc' = "call"
  /\ UNCHANGED <<calls, sent, failed, replies, response, rendered, cerr>>
  /\ UNCHANGED rwVars

\* line 6, when no region is configured for the client
CreateClientFail ==
  /\ cpc = "client"
  /\ cpc' = "error"
  /\ cerr' = [type |-> "NoRegionError", at |-> "client"]
  /\ UNCHANGED <<calls, sent, failed, replies, response, rendered>>
  /\ UNCHANGED rwVars

\* an except clause around the call that shows the error
RaiseFromCallShown(e) ==
  /\ cpc' = "done"
  /\ cerr' = [type |-> e, at |-> "call"]
  /\ rendered' = Append(rendered, [markdown |-> e])

\* converse raises: nothing catches it, and line 38 is never reached
RaiseFromCall(e) ==
  /\ cpc' = "error"
  /\ cerr' = [type |-> e, at |-> "call"]
  /\ rendered' = rendered

\* lines 31-36: the script calls converse and the client sends the request
Converse ==
  /\ cpc = "call"
  /\ calls' = calls + 1
  /\ sent' = Append(sent, Request)
  /\ cpc' = "waiting"
  /\ UNCHANGED <<failed, replies, response, rendered, cerr>>
  /\ UNCHANGED rwVars

\* lines 31-36, when the client finds no credentials to sign the request with
ConverseNoCredentials ==
  /\ cpc = "call"
  /\ calls' = calls + 1
  /\ RaiseFromCall("NoCredentialsError")
  /\ UNCHANGED <<sent, failed, replies, response>>
  /\ UNCHANGED rwVars

\* the service answers with a response: converse returns it
ServiceResponds ==
  /\ cpc = "waiting"
  /\ \E r \in Responses : response' = r
  /\ replies' = replies + 1
  /\ cpc' = "display"
  /\ UNCHANGED <<calls, sent, failed, rendered, cerr>>
  /\ UNCHANGED rwVars

\* the service answers with an error the client does not retry (the request
\* is refused: validation, access denied, ...)
ServiceRefuses ==
  /\ cpc = "waiting"
  /\ replies' = replies + 1
  /\ RaiseFromCall("ClientError")
  /\ UNCHANGED <<calls, sent, failed, response>>
  /\ UNCHANGED rwVars

\* after a failure the default retry policy retries: the client sends the
\* request again while it has attempts left, and raises when it has none
RetryOrRaise(e) ==
  /\ failed' = failed + 1
  /\ IF Len(sent) < MaxAttempts
     THEN /\ sent' = Append(sent, Request)
          /\ UNCHANGED <<cpc, cerr, rendered>>
     ELSE /\ RaiseFromCall(e)
          /\ sent' = sent

\* the service answers with an error the client retries (throttling, 5xx)
ServiceThrottles ==
  /\ cpc = "waiting"
  /\ replies' = replies + 1
  /\ RetryOrRaise("ClientError")
  /\ UNCHANGED <<calls, response>>
  /\ UNCHANGED rwVars

\* a timeout that hands the script an empty response
TimeoutReturnsEmpty ==
  /\ cpc = "waiting"
  /\ response' = [stopReason |-> "timeout"]
  /\ cpc' = "display"
  /\ UNCHANGED <<calls, sent, failed, replies, rendered, cerr>>
  /\ UNCHANGED rwVars

\* the service does not answer within the client's read timeout
Timeout ==
  /\ cpc = "waiting"
  /\ RetryOrRaise("ReadTimeoutError")
  /\ UNCHANGED <<calls, replies, response>>
  /\ UNCHANGED rwVars

HasKey(d, key) == key \in DOMAIN d

\* the last text segment
LastText(r) ==
  r["output"]["message"]["content"][Len(r["output"]["message"]["content"])]["text"]

\* response["output"]["message"]["content"][0]["text"]
FirstText(r) == r["output"]["message"]["content"][1]["text"]

\* the exception the subscripts of line 38 raise on r; "" when they raise none
SubscriptError(r) ==
  IF ~HasKey(r, "output") THEN "KeyError"
  ELSE IF ~HasKey(r["output"], "message") THEN "KeyError"
  ELSE IF ~HasKey(r["output"]["message"], "content") THEN "KeyError"
  ELSE IF Len(r["output"]["message"]["content"]) = 0 THEN "IndexError"
  ELSE IF ~HasKey(r["output"]["message"]["content"][1], "text") THEN "KeyError"
  ELSE ""

\* Markdown(text)
Markdown(text) == [markdown |-> text]

\* line 38: display(Markdown(response[...][0]["text"]))
Display ==
  /\ cpc = "display"
  /\ IF SubscriptError(response) = ""
     THEN /\ rendered' = Append(rendered, Markdown(FirstText(response)))
          /\ cpc' = "done"
          /\ cerr' = cerr
     ELSE /\ cpc' = "error"
          /\ cerr' = [type |-> SubscriptError(response), at |-> "display"]
          /\ rendered' = rendered
  /\ UNCHANGED <<calls, sent, failed, replies, response>>
  /\ UNCHANGED rwVars

CallerNext ==
  \/ CreateClient
  \/ CreateClientFail
  \/ Converse
  \/ ConverseNoCredentials
  \/ ServiceResponds
  \/ ServiceRefuses
  \/ ServiceThrottles
  \/ Timeout
  \/ Display

\* the other script has not been started
RewriterIdle ==
  /\ exists = TRUE
  /\ readable = TRUE
  /\ writable = TRUE
  /\ file = <<>>
  /\ linesep = LF
  /\ ScriptStart
  /\ CallerStart

CallerInit == RewriterIdle

CallerSpec == CallerInit /\ [][CallerNext]_vars

Spec == RewriterInit /\ [][RewriterNext]_vars

OrderSpec == OrderInit /\ [][OrderNext]_vars

(***************************************************************************)
(* The for loop of lines 17-21 as a function of the text read: the content *)
(* and the count it ends with when it visits the table from pair k on.     *)
(***************************************************************************)
RECURSIVE LoopFrom(_, _, _)
LoopFrom(c, n, k) ==
  IF k > Len(replacements) THEN [content |-> c, count |-> n]
  ELSE LoopFrom(LoopContent(c, Old(k), New(k)), LoopCount(c, n, Old(k)), k + 1)

TableOrder(c) == LoopFrom(c, 0, 1)

(***************************************************************************)
(* What the properties below are stated with.                              *)
(***************************************************************************)
Terminated == pc \in { "done", "error" }

\* the pairs whose old-string occurs in s
PairsFound(s) == { k \in Pairs : Contains(s, Old(k)) }

\* the leftmost position at or after p where some old-string starts; 0 when
\* none does
FindAnyOld(s, p) ==
  IF \E q \in p..Len(s) : \E k \in Pairs : MatchAt(s, Old(k), q)
  THEN CHOOSE q \in p..Len(s) :
         /\ \E k \in Pairs : MatchAt(s, Old(k), q)
         /\ \A r \in p..(q - 1) : \A k \in Pairs : ~MatchAt(s, Old(k), r)
  ELSE 0

\* s with every occurrence of an old-string replaced by the new-string of its
\* own pair in one pass, and everything else kept as it is
RECURSIVE RewrittenFrom(_, _)
RewrittenFrom(s, p) ==
  LET q == FindAnyOld(s, p)
  IN  IF q = 0 THEN SubSeq(s, p, Len(s))
      ELSE LET k == CHOOSE j \in Pairs : MatchAt(s, Old(j), q)
           IN  SubSeq(s, p, q - 1) \o New(k) \o RewrittenFrom(s, q + Len(Old(k)))

Rewritten(s) == RewrittenFrom(s, 1)

IsPrefix(a, b) ==
  /\ Len(a) <= Len(b)
  /\ \A p \in 1..Len(a) : a[p] = b[p]

\* some non-empty end of a is a start of b, short of the whole of both
Overlaps(a, b) ==
  \E n \in 1..Len(a) :
    /\ n <= Len(b)
    /\ ~(n = Len(a) /\ n = Len(b))
    /\ SubSeq(a, Len(a) - n + 1, Len(a)) = SubSeq(b, 1, n)

(***************************************************************************)
(* C1: in a run that completes, the reported count is the number of pairs  *)
(* of the table whose old-string occurs in the content of the file, however *)
(* many times each occurs.                                                 *)
(***************************************************************************)
C1_CountIsPairsFound ==
  pc = "done" =>
    /\ count = Cardinality(PairsFound(Decode(orig)))
    /\ stdout = << Message(Cardinality(PairsFound(Decode(orig)))) >>

\* a completed run on a file in which one old-string occurs twice
C1_Witness ==
  /\ pc = "done"
  /\ count = 1
  /\ \E k \in Pairs : Occurrences(Decode(orig), Old(k)) = 2

(***************************************************************************)
(* C2: in a run that completes, the file written back holds no old-string, *)
(* and is the file read with every old-string replaced by its new-string   *)
(* and every other byte as it was.                                         *)
(***************************************************************************)
C2_OnlyPathsChange ==
  pc = "done" =>
    /\ \A k \in Pairs : ~Contains(Decode(file), Old(k))
    /\ file = Encode(Rewritten(Decode(orig)))

(***************************************************************************)
(* C3: a run on the file a completed run left reports a count of 0 and     *)
(* writes back what it read.                                               *)
(***************************************************************************)
C3_Idempotent ==
  (run > 1 /\ pc = "done") =>
    /\ count = 0
    /\ stdout = << Message(0) >>
    /\ content = input
    /\ file = orig

\* the second run has completed on a file whose first run replaced two pairs
C3_Witness ==
  /\ run = 2
  /\ pc = "done"
  /\ reported = <<2>>

(***************************************************************************)
(* C4, as claimed: a run ends with the file holding either its original    *)
(* content or the fully transformed content.                               *)
(***************************************************************************)
C4_TransformedOrOriginal ==
  Terminated =>
    \/ file = orig
    \/ /\ todo = {}
       /\ file = WrittenBytes(content, linesep)

(***************************************************************************)
(* C4, amended: a run that completes leaves the fully transformed content; *)
(* a run that fails before the file is open for writing, or in opening it  *)
(* for writing, leaves the original content; a run whose write fails       *)
(* leaves a prefix of the transformed content, which may be empty.         *)
(***************************************************************************)
C4_TruncatedOnWriteFailure ==
  /\ pc = "done" => file = WrittenBytes(content, linesep)
  /\ (pc = "error" /\ err.at \in { "open_r", "read", "open_w" }) => file = orig
  /\ (pc = "error" /\ err.at = "write") =>
       IsPrefix(file, WrittenBytes(content, linesep))

\* a write that failed part of the way: the file holds neither content
C4_Witness ==
  /\ pc = "error"
  /\ err.at = "write"
  /\ file # <<>>
  /\ file # orig
  /\ file # WrittenBytes(content, linesep)

(***************************************************************************)
(* C5: when the file does not exist or cannot be read, the run ends with   *)
(* an uncaught error, the file as it was and nothing printed; the count is *)
(* printed only once the read and the write-back have both completed.      *)
(***************************************************************************)
C5_ReadFailureLeavesFileAlone ==
  /\ \/ /\ pc \in { "open_r", "read", "error" }
        /\ file = orig
        /\ stdout = <<>>
     \/ exists /\ readable /\ ValidUtf8(orig)
  /\ err.at \in { "open_r", "read" } =>
       /\ pc = "error"
       /\ file = orig
       /\ stdout = <<>>
  /\ stdout # <<>> => { "read", "write" } \subseteq completed

\* the run has ended on a file that is not there
C5_Witness ==
  /\ ~exists
  /\ pc = "error"
  /\ err = [type |-> "FileNotFoundError", at |-> "open_r"]

(***************************************************************************)
(* C10: whatever order the loop visits the six pairs in, the run ends with *)
(* the content and the count that the order of the table gives; no         *)
(* old-string lies in or overlaps another, and no new-string holds an      *)
(* old-string or can complete one with the text around it.                 *)
(***************************************************************************)
C10_OrderIndependent ==
  pc = "done" =>
    /\ content = TableOrder(input).content
    /\ count = TableOrder(input).count
    /\ file = WrittenBytes(TableOrder(input).content, linesep)
    /\ stdout = << Message(TableOrder(input).count) >>
    /\ \A j, k \in Pairs :
         /\ j # k => ~Contains(Old(j), Old(k)) /\ ~Overlaps(Old(j), Old(k))
         /\ ~Contains(New(j), Old(k))
         /\ ~Contains(Old(k), New(j))
         /\ ~Overlaps(New(j), Old(k))
         /\ ~Overlaps(Old(k), New(j))

\* a completed run on a file that held two different old-strings
C10_Witness ==
  /\ pc = "done"
  /\ count = 2
  /\ Cardinality(PairsFound(input)) = 2


\* r has the shape the script reads: a non-empty content list whose first
\* element has a text field
HasFirstText(r) ==
  /\ "output" \in DOMAIN r
  /\ "message" \in DOMAIN r.output
  /\ "content" \in DOMAIN r.output.message
  /\ Len(r.output.message.content) >= 1
  /\ "text" \in DOMAIN r.output.message.content[1]

CallerTerminated == cpc \in { "done", "error" }

(***************************************************************************)
(* C6: when converse returns a response whose content list is non-empty    *)
(* and starts with a text segment, the run ends having rendered exactly    *)
(* that first text, whatever segments follow it.                           *)
(***************************************************************************)
C6_FirstTextRendered ==
  (CallerTerminated /\ response # Unset /\ HasFirstText(response)) =>
    /\ cpc = "done"
    /\ rendered = << [markdown |-> response.output.message.content[1].text] >>

\* the response held two different text segments and the first was rendered
C6_Witness ==
  /\ cpc = "done"
  /\ response.output.message.content = << [text |-> "X"], [text |-> "Y"] >>
  /\ rendered = << [markdown |-> "X"] >>

(***************************************************************************)
(* C7: when converse raises, the run ends with an uncaught error and       *)
(* nothing rendered; something is rendered only after converse returned.   *)
(***************************************************************************)
C7_NothingRenderedOnCallError ==
  /\ cerr.at = "call" =>
       /\ cpc = "error"
       /\ rendered = <<>>
       /\ response = Unset
  /\ cpc \in { "client", "call", "waiting" } => rendered = <<>>
  /\ rendered # <<>> =>
       /\ response # Unset
       /\ cerr = NoError

\* the service refused the request and converse raised
C7_Witness ==
  /\ cpc = "error"
  /\ cerr = [type |-> "ClientError", at |-> "call"]
  /\ replies = 1
  /\ failed = 0

(***************************************************************************)
(* C8, as claimed: a run puts at most one request on the wire, renders at  *)
(* most once, and every request carries the fixed configuration, one user  *)
(* message and one system instruction.                                     *)
(***************************************************************************)
C8_AtMostOneRequest ==
  /\ Len(sent) <= 1
  /\ Len(rendered) <= 1
  /\ \A n \in 1..Len(sent) :
       /\ sent[n].inferenceConfig = [temperature |-> 1, topP |-> 1, maxTokens |-> 2000]
       /\ Len(sent[n].messages) = 1
       /\ sent[n].messages[1].role = "user"
       /\ Len(sent[n].system) = 1

(***************************************************************************)
(* C8, amended: a run makes at most one converse call and renders at most  *)
(* once; the script never repeats the call, but the client sends the       *)
(* request again after each failure its default policy retries, so the     *)
(* requests on the wire number at most one more than those failures; every *)
(* request carries the fixed configuration, one user message and one       *)
(* system instruction.                                                     *)
(***************************************************************************)
C8_OneCallResentByClient ==
  /\ calls <= 1
  /\ Len(rendered) <= 1
  /\ Len(sent) <= calls + failed
  /\ Len(sent) > 0 => calls = 1
  /\ \A n \in 1..Len(sent) :
       /\ sent[n].inferenceConfig = [temperature |-> 1, topP |-> 1, maxTokens |-> 2000]
       /\ Len(sent[n].messages) = 1
       /\ sent[n].messages[1].role = "user"
       /\ Len(sent[n].system) = 1

\* the first request was throttled or timed out, the second was answered
C8_Witness ==
  /\ cpc = "done"
  /\ calls = 1
  /\ Len(sent) = 2
  /\ failed = 1
  /\ Len(rendered) = 1

(***************************************************************************)
(* C9, as claimed: once a request is out and the service has given no      *)
(* answer, the process stays blocked in the call.                          *)
(***************************************************************************)
C9_BlockedWhileUnanswered ==
  (Len(sent) >= 1 /\ replies = 0) => cpc = "waiting"

(***************************************************************************)
(* C9, amended: the call blocks the process until it returns or raises,    *)
(* and nothing is rendered meanwhile; the script sets no timeout of its    *)
(* own, but the client's default timeouts end an attempt the service does  *)
(* not answer, so a run in which the service never answers stays in the    *)
(* call until every attempt has timed out and then ends with the uncaught  *)
(* timeout error and nothing rendered; line 38 is reached only after the   *)
(* service has answered.                                                   *)
(***************************************************************************)
C9_EndsWhenCallReturnsOrRaises ==
  /\ cpc = "waiting" =>
       /\ rendered = <<>>
       /\ response = Unset
       /\ cerr = NoError
  /\ (Len(sent) >= 1 /\ replies = 0) =>
       /\ rendered = <<>>
       /\ response = Unset
       /\ \/ cpc = "waiting"
          \/ /\ cpc = "error"
             /\ cerr = [type |-> "ReadTimeoutError", at |-> "call"]
             /\ failed = Len(sent)
  /\ cpc \in { "display", "done" } => replies >= 1 /\ response # Unset

\* the service never answered and the run has ended on the timeout error
C9_Witness ==
  /\ cpc = "error"
  /\ cerr.type = "ReadTimeoutError"
  /\ replies = 0
  /\ Len(sent) >= 2

=============================================================================
